---- MODULE Spec2Model ----
(***************************************************************************)
(* Admin content-editing workflow of the aaroncolemanmusic frontend:       *)
(*   - the new-page form (frontend/src/app/admin/pages/new/page.tsx):      *)
(*     the draft record, slug / meta-title derivation from the title;      *)
(*   - the ImageUpload control (components/ImageUpload, unnamed/part_001): *)
(*     validation, preview object URL life cycle, upload round trip.       *)
(* Strings are modelled as sequences of one-character strings so that the  *)
(* slug derivation can be computed character by character.                 *)
(***************************************************************************)
EXTENDS Integers, Sequences, FiniteSets, TLC

VARIABLES
    formData,      \* NewPage: the draft (useState at new/page.tsx:15)
    slugTouched,   \* history: the user has typed into the slug input
    metaTouched,   \* history: the user has typed into the meta_title input
    uploading,     \* ImageUpload: useState(false), part_001:24
    preview,       \* ImageUpload: useState(currentImage || null), part_001:25
    error,         \* ImageUpload: useState(null), part_001:26
    attempts,      \* one record per onDrop call that passed validation: its file,
                   \* object URL, the currentImage prop its closure captured, the
                   \* outcome of its request with the descriptor or the failure
                   \* message it got (previewBefore is history)
    revoked,       \* per attempt: number of URL.revokeObjectURL calls on its URL
    notified,      \* per attempt: the onUpload calls made by that attempt
    requests,      \* number of api.uploadMedia calls issued so far
    lastUploadEvent, \* history: the ImageUpload handler that ran last, with its input
    isLoading,     \* NewPage: useState(false), new/page.tsx:14
    createRequest, \* the last api.createPage call: the draft sent and its outcome
    createCount,   \* number of api.createPage calls issued so far
    alerts,        \* the messages shown with alert(), new/page.tsx:86
    navigated,     \* router.push('/admin/pages') has run, new/page.tsx:83
    dashRequests,  \* AdminDashboard: the four requests of Promise.all, admin/page.tsx:132
    joined,        \* AdminDashboard: how the Promise.all promise settled, if it did
    stats,         \* AdminDashboard: useState at admin/page.tsx:118
    dashLoading,   \* AdminDashboard: isLoading, useState(true) at admin/page.tsx:124
    pages,         \* PagesManagement: useState([]) at pages/page.tsx:10
    sections,      \* PagesManagement: useState([]) at pages/page.tsx:11
    listLoading,   \* PagesManagement: isLoading, useState(true) at pages/page.tsx:12
    selectedSection, \* PagesManagement: useState('all') at pages/page.tsx:13
    listRequests,  \* PagesManagement: the two requests of Promise.all, pages/page.tsx:20
    listJoined,    \* PagesManagement: how the Promise.all promise settled, if it did
    deletes,       \* one record per api.deletePage call: the identity, the pages
                   \* array its closure captured, and the outcome of the request
    lastDeleteEvent \* history: the last step of handleDeletePage, with its input

vars == <<formData, slugTouched, metaTouched, uploading, preview, error,
          attempts, revoked, notified, requests, lastUploadEvent,
          isLoading, createRequest, createCount, alerts, navigated,
          dashRequests, joined, stats, dashLoading,
          pages, sections, listLoading, selectedSection, listRequests, listJoined,
          deletes, lastDeleteEvent>>

formVars == <<formData, slugTouched, metaTouched>>
uploadVars == <<uploading, preview, error, attempts, revoked, notified, requests,
                lastUploadEvent>>
submitVars == <<isLoading, createRequest, createCount, alerts, navigated>>
dashVars == <<dashRequests, joined, stats, dashLoading>>
listVars == <<pages, sections, listLoading, selectedSection, listRequests, listJoined,
              deletes, lastDeleteEvent>>

----------------------------------------------------------------------------
(* Bounds *)

MaxLen == 2
MaxUploads == 3
MaxSubmits == 2
MaxItems == 2
MaxPages == 3
MaxDeletes == 2

----------------------------------------------------------------------------
(* Characters and strings *)

LowerChars == {"a", "b", "m", "y"}
UpperChars == {"A", "B", "M"}
DigitChars == {"1"}
WhitespaceChars == {" "}
HyphenChar == "-"

\* the characters a user types into the title field in this model
TitleAlphabet == {"B", " ", "-", "!"}

RECURSIVE SeqsUpTo(_, _)
SeqsUpTo(S, n) ==
    IF n = 0 THEN {<<>>}
    ELSE LET shorter == SeqsUpTo(S, n - 1)
         IN  shorter \cup {Append(s, c) : s \in {t \in shorter : Len(t) = n - 1}, c \in S}

TitleInputs == SeqsUpTo(TitleAlphabet, MaxLen)
SlugInputs == {<<>>, <<"m", "y">>}
MetaTitleInputs == {<<>>, <<"M">>}

\* String.prototype.toLowerCase, one character
LowerOf(c) ==
    CASE c = "A" -> "a"
      [] c = "B" -> "b"
      [] c = "M" -> "m"
      [] OTHER -> c

ToLowerCase(s) == [i \in 1..Len(s) |-> LowerOf(s[i])]

\* .replace(/[^a-z0-9\s-]/g, '')
IsSlugChar(c) == c \in LowerChars \cup DigitChars \cup WhitespaceChars \cup {HyphenChar}
StripDisallowed(s) == SelectSeq(s, IsSlugChar)

\* .replace(/\s+/g, '-') : every maximal run of whitespace becomes one hyphen
RECURSIVE ReplaceWhitespaceRuns(_)
ReplaceWhitespaceRuns(s) ==
    IF s = <<>> THEN <<>>
    ELSE IF Head(s) \in WhitespaceChars
         THEN IF Len(s) > 1 /\ s[2] \in WhitespaceChars
              THEN ReplaceWhitespaceRuns(Tail(s))
              ELSE <<HyphenChar>> \o ReplaceWhitespaceRuns(Tail(s))
         ELSE <<Head(s)>> \o ReplaceWhitespaceRuns(Tail(s))

\* .replace(/-+/g, '-') : every maximal run of hyphens becomes one hyphen
RECURSIVE CollapseHyphens(_)
CollapseHyphens(s) ==
    IF s = <<>> THEN <<>>
    ELSE IF Head(s) = HyphenChar /\ Len(s) > 1 /\ s[2] = HyphenChar
         THEN CollapseHyphens(Tail(s))
         ELSE <<Head(s)>> \o CollapseHyphens(Tail(s))

\* String.prototype.trim takes no parameter: the '-' passed at
\* new/page.tsx:59 is ignored and only whitespace is removed from both ends.
RECURSIVE TrimStart(_)
TrimStart(s) ==
    IF s # <<>> /\ Head(s) \in WhitespaceChars THEN TrimStart(Tail(s)) ELSE s

RECURSIVE TrimEnd(_)
TrimEnd(s) ==
    IF s # <<>> /\ s[Len(s)] \in WhitespaceChars
    THEN TrimEnd(SubSeq(s, 1, Len(s) - 1))
    ELSE s

Trim(s) == TrimEnd(TrimStart(s))

\* the slug expression of handleInputChange, new/page.tsx:55-59
Slugify(value) ==
    Trim(CollapseHyphens(ReplaceWhitespaceRuns(StripDisallowed(ToLowerCase(value)))))

----------------------------------------------------------------------------
(* References (image URLs), errors, files *)

Null == [kind |-> "null", n |-> 0]
EmptyStr == [kind |-> "empty", n |-> 0]
BlobUrl(i) == [kind |-> "blob", n |-> i]
Locator(k) == [kind |-> "loc", n |-> k]

\* JavaScript truthiness of a string-or-null reference
Falsy(r) == r.kind \in {"null", "empty"}
\* the expression  r || null
OrNull(r) == IF Falsy(r) THEN Null ELSE r

----------------------------------------------------------------------------
(* NewPage form: the draft and handleInputChange *)

\* useState initial value, new/page.tsx:15-31 (the fields this model tracks)
InitialFormData ==
    [title |-> <<>>, slug |-> <<>>, meta_title |-> <<>>, featured_image |-> EmptyStr,
     section_id |-> "", status |-> "draft", content |-> "", excerpt |-> <<>>,
     requires_auth |-> FALSE]

\* new/page.tsx:48-51 : setFormData(prev => ({...prev, [name]: value}))
SetField(prev, name, value) == [prev EXCEPT ![name] = value]

\* new/page.tsx:53-61 : the guard reads formData of the current render,
\* the updater is applied to prev
DeriveSlug(prev, name, value) ==
    IF name = "title" /\ formData.slug = <<>>
    THEN [prev EXCEPT !.slug = Slugify(value)]
    ELSE prev

\* a slip that nests the meta-title rule inside the slug rule
DeriveMetaTitle_InsideSlugBranch(prev, name, value) ==
    IF name = "title" /\ formData.slug = <<>> /\ formData.meta_title = <<>>
    THEN [prev EXCEPT !.meta_title = value]
    ELSE prev

\* new/page.tsx:63-66
DeriveMetaTitle(prev, name, value) ==
    IF name = "title" /\ formData.meta_title = <<>>
    THEN [prev EXCEPT !.meta_title = value]
    ELSE prev

\* new/page.tsx:46-67
HandleInputChange(name, value) ==
    DeriveMetaTitle(DeriveSlug(SetField(formData, name, value), name, value), name, value)

\* a change event of the title input (new/page.tsx:129-138) with this value
TitleChangeTo(value) ==
    /\ ~navigated
    /\ value # formData.title
    /\ formData' = HandleInputChange("title", value)
    /\ UNCHANGED <<slugTouched, metaTouched>>
    /\ UNCHANGED <<uploadVars, submitVars, dashVars, listVars>>

TitleChange == \E value \in TitleInputs : TitleChangeTo(value)

\* a change event of the slug input (new/page.tsx:143-152)
SlugChange ==
    \E value \in SlugInputs :
        /\ ~navigated
        /\ value # formData.slug
        /\ formData' = HandleInputChange("slug", value)
        /\ slugTouched' = TRUE
        /\ UNCHANGED metaTouched
        /\ UNCHANGED <<uploadVars, submitVars, dashVars, listVars>>

\* a change event of the meta_title input (new/page.tsx:266-274)
MetaTitleChange ==
    \E value \in MetaTitleInputs :
        /\ ~navigated
        /\ value # formData.meta_title
        /\ formData' = HandleInputChange("meta_title", value)
        /\ metaTouched' = TRUE
        /\ UNCHANGED slugTouched
        /\ UNCHANGED <<uploadVars, submitVars, dashVars, listVars>>

----------------------------------------------------------------------------
(* ImageUpload control *)

\* default value of the maxSize prop, part_001:21
maxSize == 5242880

\* File objects: size in bytes and MIME type as <<family, subtype>>
FileSizes == {maxSize - 1, maxSize, maxSize + 1}
FileTypes == {<<"image", "png">>, <<"text", "plain">>}
FileInputs == [size : FileSizes, type : FileTypes]
NoFile == [size |-> 0, type |-> <<"", "">>]

\* file.type.startsWith('image/')
StartsWithImage(type) == type[1] = "image"

\* Math.round(a / b) for positive integers
RoundDiv(a, b) == (2 * a + b) \div (2 * b)

\* values of the error state
NoError == [kind |-> "none", mb |-> 0, msg |-> ""]
\* part_001:34
SizeError == [kind |-> "size", mb |-> RoundDiv(maxSize, 1024 * 1024), msg |-> ""]
\* part_001:40
TypeError == [kind |-> "type", mb |-> 0, msg |-> ""]
\* a slip that drops the backend's message
UploadError_AlwaysGeneric(message) ==
    [kind |-> "generic", mb |-> 0, msg |-> "Upload failed. Please try again."]

\* part_001:70 : error.response?.data?.message || 'Upload failed. Please try again.'
UploadError(message) ==
    IF message = ""
    THEN [kind |-> "generic", mb |-> 0, msg |-> "Upload failed. Please try again."]
    ELSE [kind |-> "server", mb |-> 0, msg |-> message]

\* what the backend may answer: a descriptor with a stored-file locator, or
\* a failure with or without a message ("" stands for an absent message)
LocatorIds == {1, 2}
DisplayUrl(k) == [kind |-> "url", n |-> k]
Descriptors == {[file |-> Locator(k), url |-> DisplayUrl(k)] : k \in LocatorIds}
NoDescriptor == [file |-> Null, url |-> Null]
FailureMessages == {"", "Unsupported media"}

\* useDropzone({onDrop, accept: {'image/*': []}, multiple: false, maxSize}),
\* part_001:77-82 : react-dropzone passes to onDrop, as acceptedFiles, only the
\* dropped files that match accept and whose size does not exceed maxSize; the
\* others go to the fileRejections argument, which onDrop does not take.
DropzoneAccepts(file) == StartsWithImage(file.type) /\ file.size <= maxSize
AcceptedFiles(files) == SelectSeq(files, DropzoneAccepts)

\* the drop surface reacts to the pointer: the "Change Image" button of the
\* preview branch (part_001:121-127) always, the drop area of the other
\* branch unless uploading (pointer-events-none, part_001:139)
DropSurfaceEnabled == ~Falsy(preview) \/ ~uploading

\* NewPage.handleImageUpload, new/page.tsx:73-75
HandleImageUpload(imageUrl) == [formData EXCEPT !.featured_image = imageUrl]

\* a slip that emits the display URL of the descriptor instead of its locator
EmittedReference_DisplayUrl(imageData) == imageData.url

\* first argument of onUpload on the success path, part_001:64
EmittedReference(imageData) == imageData.file

NoEvent == [type |-> "none", id |-> 0, file |-> NoFile, data |-> NoDescriptor]

\* onDrop up to its await, part_001:28-61
OnDrop(acceptedFiles, droppedFile) ==
    LET file == IF acceptedFiles = <<>> THEN NoFile ELSE acceptedFiles[1]
        id == Len(attempts) + 1
        previewUrl == BlobUrl(id)
    IN  IF acceptedFiles = <<>>
        THEN /\ lastUploadEvent' = [NoEvent EXCEPT !.type = "drop", !.file = droppedFile]
             /\ UNCHANGED <<uploading, preview, error, attempts, revoked, notified, requests>>
        ELSE IF file.size > maxSize
        THEN /\ error' = SizeError
             /\ lastUploadEvent' = [NoEvent EXCEPT !.type = "drop", !.file = droppedFile]
             /\ UNCHANGED <<uploading, preview, attempts, revoked, notified, requests>>
        ELSE IF ~StartsWithImage(file.type)
        THEN /\ error' = TypeError
             /\ lastUploadEvent' = [NoEvent EXCEPT !.type = "drop", !.file = droppedFile]
             /\ UNCHANGED <<uploading, preview, attempts, revoked, notified, requests>>
        ELSE /\ uploading' = TRUE
             /\ error' = NoError
             /\ preview' = previewUrl
             /\ attempts' = Append(attempts,
                    [file |-> file, previewUrl |-> previewUrl,
                     currentImage |-> formData.featured_image,
                     previewBefore |-> preview,
                     status |-> "pending", data |-> NoDescriptor, message |-> ""])
             /\ requests' = requests + 1
             /\ lastUploadEvent' =
                    [NoEvent EXCEPT !.type = "drop", !.id = id, !.file = droppedFile]
             /\ UNCHANGED <<revoked, notified>>

\* the user drops (or picks) one file on the drop surface
Drop ==
    \E file \in FileInputs :
        /\ DropSurfaceEnabled
        /\ Len(attempts) < MaxUploads
        /\ OnDrop(AcceptedFiles(<<file>>), file)
        /\ UNCHANGED <<formVars, submitVars, dashVars, listVars>>

\* onDrop after api.uploadMedia resolved, part_001:63-67 and 72-74
UploadSucceeds ==
    \E id \in 1..Len(attempts), imageData \in Descriptors :
        /\ attempts[id].status = "pending"
        /\ attempts' = [attempts EXCEPT ![id].status = "ok", ![id].data = imageData]
        /\ formData' = HandleImageUpload(EmittedReference(imageData))
        /\ notified' = [notified EXCEPT
               ![id] = Append(@, [imageUrl |-> EmittedReference(imageData),
                                  imageData |-> imageData])]
        /\ revoked' = [revoked EXCEPT ![id] = @ + 1]
        /\ uploading' = FALSE
        /\ lastUploadEvent' = [NoEvent EXCEPT !.type = "success", !.id = id, !.data = imageData]
        /\ UNCHANGED <<preview, error, requests, slugTouched, metaTouched>>
        /\ UNCHANGED <<submitVars, dashVars, listVars>>

\* a slip that resets uploading at the end of the try block instead of in
\* a finally block: the failure path leaves it set
UploadFails_WithoutFinally ==
    \E id \in 1..Len(attempts), message \in FailureMessages :
        /\ attempts[id].status = "pending"
        /\ attempts' = [attempts EXCEPT ![id].status = "failed", ![id].message = message]
        /\ error' = UploadError(message)
        /\ preview' = OrNull(attempts[id].currentImage)
        /\ lastUploadEvent' = [NoEvent EXCEPT !.type = "failure", !.id = id]
        /\ UNCHANGED <<uploading, revoked, notified, requests, formVars, submitVars, dashVars, listVars>>

\* onDrop after api.uploadMedia rejected, part_001:68-74
UploadFails ==
    \E id \in 1..Len(attempts), message \in FailureMessages :
        /\ attempts[id].status = "pending"
        /\ attempts' = [attempts EXCEPT ![id].status = "failed", ![id].message = message]
        /\ error' = UploadError(message)
        /\ preview' = OrNull(attempts[id].currentImage)
        /\ uploading' = FALSE
        /\ lastUploadEvent' = [NoEvent EXCEPT !.type = "failure", !.id = id]
        /\ UNCHANGED <<revoked, notified, requests, formVars, submitVars, dashVars, listVars>>

\* a slip that clears the control but does not tell the parent
RemoveImage_WithoutNotify ==
    /\ ~Falsy(preview)
    /\ preview' = Null
    /\ error' = NoError
    /\ lastUploadEvent' = [NoEvent EXCEPT !.type = "remove"]
    /\ UNCHANGED <<uploading, attempts, revoked, notified, requests,
                   formVars, submitVars, dashVars, listVars>>

\* removeImage, part_001:84-88 ; its button is rendered only in the preview
\* branch (part_001:96, 108-117)
RemoveImage ==
    /\ ~Falsy(preview)
    /\ preview' = Null
    /\ error' = NoError
    /\ formData' = HandleImageUpload(EmptyStr)
    /\ lastUploadEvent' = [NoEvent EXCEPT !.type = "remove"]
    /\ UNCHANGED <<uploading, attempts, revoked, notified, requests,
                   slugTouched, metaTouched, submitVars, dashVars, listVars>>

----------------------------------------------------------------------------
(* NewPage form: submission *)

\* the titles typed while a draft is prepared for submission, and the values
\* of the section select: its placeholder option and one loaded section
DraftTitleInputs == {<<>>, <<"B">>, <<" ", "B">>}
SectionInputs == {"", "1"}
CreateFailureMessages == {"", "Slug already exists"}

DraftTitleChange == \E value \in DraftTitleInputs : TitleChangeTo(value)

\* a change event of the section select (new/page.tsx:160-174)
SectionChange ==
    \E value \in SectionInputs :
        /\ ~navigated
        /\ value # formData.section_id
        /\ formData' = HandleInputChange("section_id", value)
        /\ UNCHANGED <<slugTouched, metaTouched>>
        /\ UNCHANGED <<uploadVars, submitVars, dashVars, listVars>>

\* a slip that leaves the required attribute off the section select
RequiredFieldsPresent_WithoutSection ==
    /\ formData.title # <<>>
    /\ formData.slug # <<>>

\* the required attributes of the title, slug and section inputs
\* (new/page.tsx:133, 147, 163): the browser does not dispatch the submit
\* event of the form (new/page.tsx:121) while one of them has an empty value
RequiredFieldsPresent ==
    /\ formData.title # <<>>
    /\ formData.slug # <<>>
    /\ formData.section_id # ""

\* a slip that sends the draft without the derived slug
SubmittedDraft_WithoutSlug == [formData EXCEPT !.slug = <<>>]

\* the argument of api.createPage, new/page.tsx:82
SubmittedDraft == formData

\* a slip that drops the backend's message
CreateError_AlwaysGeneric(message) == "Failed to create page"

\* new/page.tsx:86 : error.response?.data?.message || 'Failed to create page'
CreateError(message) == IF message = "" THEN "Failed to create page" ELSE message

NoCreateRequest == [draft |-> InitialFormData, status |-> "none", message |-> ""]

\* handleSubmit up to its await, new/page.tsx:77-82 ; the submit button is
\* disabled while isLoading (new/page.tsx:346)
Submit ==
    /\ ~navigated
    /\ ~isLoading
    /\ RequiredFieldsPresent
    /\ createCount < MaxSubmits
    /\ isLoading' = TRUE
    /\ createRequest' = [draft |-> SubmittedDraft, status |-> "pending", message |-> ""]
    /\ createCount' = createCount + 1
    /\ UNCHANGED <<alerts, navigated, formVars, uploadVars, dashVars, listVars>>

\* handleSubmit after api.createPage resolved, new/page.tsx:83 and 87-89
CreateSucceeds ==
    /\ createRequest.status = "pending"
    /\ createRequest' = [createRequest EXCEPT !.status = "ok"]
    /\ navigated' = TRUE
    /\ isLoading' = FALSE
    /\ UNCHANGED <<alerts, createCount, formVars, uploadVars, dashVars, listVars>>

\* handleSubmit after api.createPage rejected, new/page.tsx:84-89
CreateFails ==
    \E message \in CreateFailureMessages :
        /\ createRequest.status = "pending"
        /\ createRequest' = [createRequest EXCEPT !.status = "failed", !.message = message]
        /\ alerts' = Append(alerts, CreateError(message))
        /\ isLoading' = FALSE
        /\ UNCHANGED <<navigated, createCount, formVars, uploadVars, dashVars, listVars>>

----------------------------------------------------------------------------
(* AdminDashboard: loadDashboardData *)

StatNames == {"pages", "blogPosts", "sections", "contentBlocks"}

\* response.data as the frontend's types describe it: a bare list, or a
\* PaginatedResponse (types/index.ts:213-218) with its results list and its
\* total count, or an object with neither.  results and length hold the
\* length of the list when it is present (<<k>>) and <<>> when it is not.
ResponseData ==
    {[results |-> <<>>, length |-> <<k>>, count |-> 0] : k \in 0..MaxItems}
    \cup {[results |-> <<k>>, length |-> <<>>, count |-> t] :
              k \in 0..MaxItems, t \in {MaxItems, MaxItems + 1}}
    \cup {[results |-> <<>>, length |-> <<>>, count |-> 0]}
NoData == [results |-> <<>>, length |-> <<>>, count |-> 0]

\* a || b on numbers that may be undefined: undefined and 0 are falsy
OrElse(a, b) == IF a # <<>> /\ a[1] # 0 THEN a ELSE b

\* a slip that reads the envelope's total count instead of its list
DashboardCount_TotalCount(data) ==
    OrElse(OrElse(IF data.results # <<>> THEN <<data.count>> ELSE <<>>, data.length),
           <<0>>)[1]

\* res.data.results?.length || res.data.length || 0, admin/page.tsx:140-143
DashboardCount(data) == OrElse(OrElse(data.results, data.length), <<0>>)[1]

\* useState initial value, admin/page.tsx:118-123
InitialStats == [r \in StatNames |-> 0]

\* one of the four requests resolves; when it is the last one and none has
\* rejected, Promise.all resolves and admin/page.tsx:139-144, 147-149 run
StatRequestFulfils ==
    \E r \in StatNames, data \in ResponseData :
        /\ dashRequests[r].status = "pending"
        /\ dashRequests' = [dashRequests EXCEPT ![r] = [status |-> "fulfilled", data |-> data]]
        /\ IF joined = "pending"
              /\ \A q \in StatNames \ {r} : dashRequests[q].status = "fulfilled"
           THEN /\ joined' = "fulfilled"
                /\ stats' = [q \in StatNames |-> DashboardCount(dashRequests'[q].data)]
                /\ dashLoading' = FALSE
           ELSE UNCHANGED <<joined, stats, dashLoading>>
        /\ UNCHANGED <<formVars, uploadVars, submitVars, listVars>>

\* one of the four requests rejects; Promise.all rejects with the first
\* rejection, without waiting for the others, and admin/page.tsx:145-149 run
StatRequestRejects ==
    \E r \in StatNames :
        /\ dashRequests[r].status = "pending"
        /\ dashRequests' = [dashRequests EXCEPT ![r] = [status |-> "rejected", data |-> NoData]]
        /\ IF joined = "pending"
           THEN /\ joined' = "rejected"
                /\ dashLoading' = FALSE
                /\ UNCHANGED stats
           ELSE UNCHANGED <<joined, stats, dashLoading>>
        /\ UNCHANGED <<formVars, uploadVars, submitVars, listVars>>

----------------------------------------------------------------------------
(* NewPage form: the remaining inputs, the editor and the image callback *)

ExcerptInputs == {<<>>, <<"B">>}
StatusInputs == {"draft", "published"}
ContentInputs == {"", "<p>B</p>"}
ImageReferences == {EmptyStr} \cup {Locator(k) : k \in LocatorIds}

\* the text, textarea and select inputs wired to handleInputChange besides
\* title, slug, meta_title and section_id, with the values typed into them
PlainFieldInputs(name) == IF name = "excerpt" THEN ExcerptInputs ELSE StatusInputs
PlainFieldNames == {"excerpt", "status"}

\* new/page.tsx:50 : type === 'checkbox' ? checked : value
InputValue(type, value, checked) == IF type = "checkbox" THEN checked ELSE value

\* a change event of the excerpt textarea (new/page.tsx:226-234) or of the
\* status select
PlainFieldChange(name) ==
    \E value \in PlainFieldInputs(name) :
        /\ ~navigated
        /\ value # formData[name]
        /\ formData' = HandleInputChange(name, InputValue("text", value, FALSE))
        /\ UNCHANGED <<slugTouched, metaTouched>>
        /\ UNCHANGED <<uploadVars, submitVars, dashVars, listVars>>

\* a change event of the requires_auth checkbox (new/page.tsx:210-217)
CheckboxChange ==
    \E checked \in BOOLEAN :
        /\ ~navigated
        /\ checked # formData.requires_auth
        /\ formData' = HandleInputChange("requires_auth", InputValue("checkbox", "on", checked))
        /\ UNCHANGED <<slugTouched, metaTouched>>
        /\ UNCHANGED <<uploadVars, submitVars, dashVars, listVars>>

\* a slip that passes an object instead of an updater: the other fields are lost
HandleContentChange_ReplacesDraft(content) == [InitialFormData EXCEPT !.content = content]

\* new/page.tsx:69-71 : setFormData(prev => ({...prev, content}))
HandleContentChange(content) == [formData EXCEPT !.content = content]

\* the editor's onChange (new/page.tsx:251-256, part_002:26)
ContentChange ==
    \E content \in ContentInputs :
        /\ ~navigated
        /\ content # formData.content
        /\ formData' = HandleContentChange(content)
        /\ UNCHANGED <<slugTouched, metaTouched>>
        /\ UNCHANGED <<uploadVars, submitVars, dashVars, listVars>>

\* handleImageUpload called through the onUpload prop (new/page.tsx:73-75,
\* 241-245) ; here the control is taken as a source of references only, its
\* own state is the subject of the ImageUpload actions above
ImageUploadNotifies ==
    \E imageUrl \in ImageReferences :
        /\ ~navigated
        /\ formData' = HandleImageUpload(imageUrl)
        /\ UNCHANGED <<slugTouched, metaTouched>>
        /\ UNCHANGED <<uploadVars, submitVars, dashVars, listVars>>

----------------------------------------------------------------------------
(* Pages list (frontend/src/app/admin/pages/page.tsx) *)

ListRequestNames == {"pages", "sections"}

\* the backend's page i (types/index.ts:33-43): odd pages are in section 1,
\* even pages in section 2 ; section 3 has no page
PageOf(i) == [id |-> i, section_id |-> IF i % 2 = 1 THEN 1 ELSE 2]
PageLists == {[i \in 1..n |-> PageOf(i)] : n \in 0..MaxPages}
SectionLists == {<<>>, [i \in 1..3 |-> [id |-> i]]}

\* response bodies: a bare array or a PaginatedResponse (types/index.ts:213-218)
ListBodies(lists) == [shape : {"array", "paginated"}, items : lists]
NoBody == [shape |-> "none", items |-> <<>>]
BodiesOf(r) == IF r = "pages" THEN ListBodies(PageLists) ELSE ListBodies(SectionLists)

\* res.data.results : the array of a PaginatedResponse, <<>> for undefined
Results(data) == IF data.shape = "paginated" THEN <<data.items>> ELSE <<>>

\* pages/page.tsx:24-25 : res.data.results || res.data || []
\* (an array is truthy, the empty one too)
Listing(data) == IF Results(data) # <<>> THEN Results(data)[1] ELSE data.items

\* one of the two requests of loadData is fulfilled ; when it is the last one,
\* Promise.all is fulfilled and the rest of the try block runs
\* (pages/page.tsx:18-31)
ListRequestFulfils ==
    \E r \in ListRequestNames :
        \E data \in BodiesOf(r) :
            /\ listRequests[r].status = "pending"
            /\ listRequests' = [listRequests EXCEPT ![r] = [status |-> "ok", data |-> data]]
            /\ IF /\ listJoined = "pending"
                  /\ \A q \in ListRequestNames \ {r} : listRequests[q].status = "ok"
               THEN /\ listJoined' = "fulfilled"
                    /\ pages' = Listing(listRequests'.pages.data)
                    /\ sections' = Listing(listRequests'.sections.data)
                    /\ listLoading' = FALSE
               ELSE UNCHANGED <<listJoined, pages, sections, listLoading>>
            /\ UNCHANGED <<selectedSection, deletes, lastDeleteEvent>>
            /\ UNCHANGED <<formVars, uploadVars, submitVars, dashVars>>

\* one of the two requests is rejected ; the first rejection rejects
\* Promise.all: the catch block logs and the finally block runs
\* (pages/page.tsx:26-30)
ListRequestRejects ==
    \E r \in ListRequestNames :
        /\ listRequests[r].status = "pending"
        /\ listRequests' = [listRequests EXCEPT ![r] = [status |-> "failed", data |-> NoBody]]
        /\ IF listJoined = "pending"
           THEN /\ listJoined' = "rejected"
                /\ listLoading' = FALSE
           ELSE UNCHANGED <<listJoined, listLoading>>
        /\ UNCHANGED <<pages, sections, selectedSection, deletes, lastDeleteEvent>>
        /\ UNCHANGED <<formVars, uploadVars, submitVars, dashVars>>

\* a slip that filters in the 'all' case too
FilteredPages_AlwaysFilters ==
    SelectSeq(pages, LAMBDA page : ToString(page.section_id) = selectedSection)

\* pages/page.tsx:44-46
FilteredPages ==
    IF selectedSection = "all"
    THEN pages
    ELSE SelectSeq(pages, LAMBDA page : ToString(page.section_id) = selectedSection)

\* the options of the filter select, pages/page.tsx:106-111
SectionOptions == {"all"} \cup {ToString(sections[i].id) : i \in 1..Len(sections)}

\* a change event of the filter select, pages/page.tsx:100-104
SectionFilterChange ==
    \E value \in SectionOptions :
        /\ ~listLoading
        /\ value # selectedSection
        /\ selectedSection' = value
        /\ UNCHANGED <<pages, sections, listLoading, listRequests, listJoined,
                       deletes, lastDeleteEvent>>
        /\ UNCHANGED <<formVars, uploadVars, submitVars, dashVars>>

\* a slip that shows the same hint whatever the filter
View_SingleMessage ==
    IF listLoading
    THEN [screen |-> "loading", message |-> "Loading pages..."]
    ELSE IF Len(FilteredPages) = 0
         THEN [screen |-> "empty", message |-> "Get started by creating your first page."]
         ELSE [screen |-> "grid", message |-> ""]

\* what the component renders, pages/page.tsx:57-66 and 117-140
View ==
    IF listLoading
    THEN [screen |-> "loading", message |-> "Loading pages..."]
    ELSE IF Len(FilteredPages) = 0
         THEN [screen |-> "empty",
               message |-> IF selectedSection = "all"
                           THEN "Get started by creating your first page."
                           ELSE "No pages found in this section."]
         ELSE [screen |-> "grid", message |-> ""]

NoDeleteEvent == [type |-> "none", id |-> 0, confirmed |-> FALSE]

\* a slip that ignores the answer of the dialog
ShouldDelete_Always(answer) == TRUE

\* pages/page.tsx:34 : if (!confirm(...)) return
ShouldDelete(answer) == answer

\* pages/page.tsx:38 : pages.filter(page => page.id !== id)
RemovePage(list, id) == SelectSeq(list, LAMBDA page : page.id # id)

\* handleDeletePage up to its await (pages/page.tsx:33-37), called from the
\* Delete button of a displayed page (pages/page.tsx:198) ; the closure
\* keeps the pages array of the render the button belongs to
DeleteClick ==
    \E i \in 1..Len(FilteredPages), answer \in BOOLEAN :
        /\ ~listLoading
        /\ Len(deletes) < MaxDeletes
        /\ lastDeleteEvent' = [type |-> "click", id |-> FilteredPages[i].id,
                               confirmed |-> answer]
        /\ IF ShouldDelete(answer)
           THEN deletes' = Append(deletes, [id |-> FilteredPages[i].id, pages |-> pages,
                                            status |-> "pending"])
           ELSE UNCHANGED deletes
        /\ UNCHANGED <<pages, sections, listLoading, selectedSection, listRequests,
                       listJoined>>
        /\ UNCHANGED <<formVars, uploadVars, submitVars, dashVars>>

\* handleDeletePage after api.deletePage resolved, pages/page.tsx:38 ; the
\* backend deletes a page once
DeleteSucceeds ==
    \E k \in 1..Len(deletes) :
        /\ deletes[k].status = "pending"
        /\ \A j \in 1..Len(deletes) : deletes[j].status = "ok" => deletes[j].id # deletes[k].id
        /\ deletes' = [deletes EXCEPT ![k].status = "ok"]
        /\ pages' = RemovePage(deletes[k].pages, deletes[k].id)
        /\ lastDeleteEvent' = [type |-> "ok", id |-> deletes[k].id, confirmed |-> TRUE]
        /\ UNCHANGED <<sections, listLoading, selectedSection, listRequests, listJoined>>
        /\ UNCHANGED <<formVars, uploadVars, submitVars, dashVars>>

\* a slip that removes the page in a finally block
DeleteFails_RemovesAnyway ==
    \E k \in 1..Len(deletes) :
        /\ deletes[k].status = "pending"
        /\ deletes' = [deletes EXCEPT ![k].status = "failed"]
        /\ pages' = RemovePage(deletes[k].pages, deletes[k].id)
        /\ lastDeleteEvent' = [type |-> "failed", id |-> deletes[k].id, confirmed |-> TRUE]
        /\ UNCHANGED <<sections, listLoading, selectedSection, listRequests, listJoined>>
        /\ UNCHANGED <<formVars, uploadVars, submitVars, dashVars>>

\* handleDeletePage after api.deletePage rejected, pages/page.tsx:39-41 :
\* console.error only
DeleteFails ==
    \E k \in 1..Len(deletes) :
        /\ deletes[k].status = "pending"
        /\ deletes' = [deletes EXCEPT ![k].status = "failed"]
        /\ lastDeleteEvent' = [type |-> "failed", id |-> deletes[k].id, confirmed |-> TRUE]
        /\ UNCHANGED <<pages, sections, listLoading, selectedSection, listRequests,
                       listJoined>>
        /\ UNCHANGED <<formVars, uploadVars, submitVars, dashVars>>

----------------------------------------------------------------------------
(* Specifications *)

Init ==
    /\ formData = InitialFormData
    /\ slugTouched = FALSE
    /\ metaTouched = FALSE
    /\ uploading = FALSE
    /\ preview = OrNull(InitialFormData.featured_image)
    /\ error = NoError
    /\ attempts = <<>>
    /\ revoked = [i \in 1..MaxUploads |-> 0]
    /\ notified = [i \in 1..MaxUploads |-> <<>>]
    /\ requests = 0
    /\ lastUploadEvent = NoEvent
    /\ isLoading = FALSE
    /\ createRequest = NoCreateRequest
    /\ createCount = 0
    /\ alerts = <<>>
    /\ navigated = FALSE
    /\ dashRequests = [r \in StatNames |-> [status |-> "pending", data |-> NoData]]
    /\ joined = "pending"
    /\ stats = InitialStats
    /\ dashLoading = TRUE
    /\ pages = <<>>
    /\ sections = <<>>
    /\ listLoading = TRUE
    /\ selectedSection = "all"
    /\ listRequests = [r \in ListRequestNames |-> [status |-> "pending", data |-> NoBody]]
    /\ listJoined = "pending"
    /\ deletes = <<>>
    /\ lastDeleteEvent = NoDeleteEvent

NextForm == TitleChange \/ SlugChange \/ MetaTitleChange
NextUpload == Drop \/ UploadSucceeds \/ UploadFails \/ RemoveImage
NextSubmit ==
    \/ DraftTitleChange
    \/ SlugChange
    \/ SectionChange
    \/ Submit
    \/ CreateSucceeds
    \/ CreateFails
NextDashboard == StatRequestFulfils \/ StatRequestRejects
NextFields ==
    \/ DraftTitleChange
    \/ SlugChange
    \/ MetaTitleChange
    \/ SectionChange
    \/ \E name \in PlainFieldNames : PlainFieldChange(name)
    \/ CheckboxChange
    \/ ContentChange
    \/ ImageUploadNotifies
NextList ==
    \/ ListRequestFulfils
    \/ ListRequestRejects
    \/ SectionFilterChange
    \/ DeleteClick
    \/ DeleteSucceeds
    \/ DeleteFails
Next == NextForm \/ NextUpload \/ NextSubmit \/ NextDashboard \/ NextFields \/ NextList

\* the form's text inputs alone
SpecForm == Init /\ [][NextForm]_vars
\* the image control inside the form
SpecUpload == Init /\ [][NextUpload]_vars
\* the form from a draft to its submission
SpecSubmit == Init /\ [][NextSubmit]_vars
\* the dashboard's statistics
SpecDashboard == Init /\ [][NextDashboard]_vars
\* every input of the form, the editor and the image callback
SpecFields == Init /\ [][NextFields]_vars
\* the pages list: loading, filtering, deleting
SpecList == Init /\ [][NextList]_vars
Spec == Init /\ [][Next]_vars

----------------------------------------------------------------------------
(* Properties of the new-page form *)

\* only a-z, 0-9 and hyphens; no hyphen at either end; no two hyphens in a row
WellFormedSlug(s) ==
    /\ \A i \in 1..Len(s) : s[i] \in LowerChars \cup DigitChars \cup {HyphenChar}
    /\ s # <<>> => (s[1] # HyphenChar /\ s[Len(s)] # HyphenChar)
    /\ \A i \in 1..(Len(s) - 1) : ~(s[i] = HyphenChar /\ s[i + 1] = HyphenChar)

RECURSIVE TrimHyphensStart(_)
TrimHyphensStart(s) ==
    IF s # <<>> /\ Head(s) = HyphenChar THEN TrimHyphensStart(Tail(s)) ELSE s

RECURSIVE TrimHyphensEnd(_)
TrimHyphensEnd(s) ==
    IF s # <<>> /\ s[Len(s)] = HyphenChar
    THEN TrimHyphensEnd(SubSeq(s, 1, Len(s) - 1))
    ELSE s

\* the slugification described for the title: as Slugify, with the hyphens at
\* both ends removed
DescribedSlug(title) ==
    TrimHyphensEnd(TrimHyphensStart(
        CollapseHyphens(ReplaceWhitespaceRuns(StripDisallowed(ToLowerCase(title))))))

\* C1: while the slug is auto-derived (never typed into), it contains only
\* lowercase letters, digits and hyphens, has no hyphen at either end and no
\* two consecutive hyphens.
C1_DerivedSlugWellFormed == ~slugTouched => WellFormedSlug(formData.slug)

\* C2: once the user has typed into the slug field, no title edit changes
\* the slug.
C2_TouchedSlugFrozen ==
    [][(slugTouched /\ formData'.title # formData.title)
          => formData'.slug = formData.slug]_vars

\* C3: as long as the user never typed into the slug field, the slug is the
\* described slugification of the current title.
C3_UntouchedSlugFollowsTitle ==
    ~slugTouched => formData.slug = DescribedSlug(formData.title)

\* C4: once the user has typed into the meta-title field, no title edit
\* changes meta_title.
C4_TouchedMetaTitleFrozen ==
    [][(metaTouched /\ formData'.title # formData.title)
          => formData'.meta_title = formData.meta_title]_vars

\* C5: a title edit sets meta_title to the new title, verbatim, when
\* meta_title was empty, and leaves it unchanged otherwise, whatever happens
\* to the slug on that edit.
C5_MetaTitleMirrorsTitleWhenEmpty ==
    [][formData'.title # formData.title
          => formData'.meta_title =
                 IF formData.meta_title = <<>> THEN formData'.title
                 ELSE formData.meta_title]_vars

\* a title was mirrored verbatim (not normalised) into an untouched
\* meta_title on an edit that did not derive the slug
C5_Witness ==
    /\ ~metaTouched
    /\ slugTouched
    /\ formData.slug = <<"m", "y">>
    /\ formData.title # <<>>
    /\ formData.meta_title = formData.title
    /\ formData.meta_title # Slugify(formData.title)

----------------------------------------------------------------------------
(* Properties of the ImageUpload control *)

Rejectable(file) == file.size > maxSize \/ ~StartsWithImage(file.type)

\* C6: a dropped file that is too large or not an image issues no request,
\* does not notify the parent, does not enter uploading, leaves the preview
\* and sets an error (naming the limit when the file is too large); an image
\* of exactly maxSize bytes is accepted.
C6_RejectedFileSetsError ==
    [][lastUploadEvent'.type = "drop" =>
          /\ Rejectable(lastUploadEvent'.file) =>
                /\ requests' = requests
                /\ notified' = notified
                /\ formData' = formData
                /\ uploading' = uploading
                /\ preview' = preview
                /\ error'.kind \in {"size", "type"}
                /\ lastUploadEvent'.file.size > maxSize =>
                       (error'.kind = "size" /\ error'.mb = RoundDiv(maxSize, 1024 * 1024))
          /\ (lastUploadEvent'.file.size = maxSize
                  /\ StartsWithImage(lastUploadEvent'.file.type)) =>
                /\ requests' = requests + 1
                /\ uploading']_vars

\* C7: every successfully answered upload has notified the parent exactly
\* once, with the returned locator and the whole descriptor, no other attempt
\* has notified, and right after the success the form's featured_image is
\* that locator.
C7_SuccessNotifiesOnceWithLocator ==
    /\ \A id \in 1..Len(attempts) :
          IF attempts[id].status = "ok"
          THEN notified[id] = <<[imageUrl |-> attempts[id].data.file,
                                 imageData |-> attempts[id].data]>>
          ELSE notified[id] = <<>>
    /\ lastUploadEvent.type = "success" =>
          formData.featured_image = lastUploadEvent.data.file

C7_Witness ==
    /\ lastUploadEvent.type = "success"
    /\ attempts[lastUploadEvent.id].status = "ok"
    /\ Len(notified[lastUploadEvent.id]) = 1
    /\ formData.featured_image = Locator(2)

\* C8: no object URL is released twice, and once an attempt has settled
\* (success or failure) its object URL has been released.
C8_PreviewUrlReleasedExactlyOnce ==
    \A id \in 1..Len(attempts) :
        /\ revoked[id] <= 1
        /\ attempts[id].status # "pending" => revoked[id] = 1

\* C9: right after a successful upload the preview is the returned locator.
C9_PreviewIsLocatorAfterSuccess ==
    lastUploadEvent.type = "success" => preview = lastUploadEvent.data.file

\* C10: right after a failed upload the preview is what was displayed when
\* that attempt began.
C10_FailureRevertsPreview ==
    lastUploadEvent.type = "failure" =>
        preview = attempts[lastUploadEvent.id].previewBefore

Pending == {id \in 1..Len(attempts) : attempts[id].status = "pending"}

\* C11: there is one upload request per accepted file; an attempt that
\* failed has not notified the parent; the step in which a request fails
\* issues no request and leaves the draft, and sets the error to the
\* backend's message when there is one and to the generic message otherwise.
C11_FailureNoRetryNoNotify ==
    [][/\ requests' = Len(attempts')
       /\ \A id \in 1..Len(attempts') :
              attempts'[id].status = "failed" => notified'[id] = <<>>
       /\ lastUploadEvent'.type = "failure" =>
              /\ requests' = requests
              /\ notified' = notified
              /\ formData' = formData
              /\ error'.msg =
                     IF attempts'[lastUploadEvent'.id].message # ""
                     THEN attempts'[lastUploadEvent'.id].message
                     ELSE "Upload failed. Please try again."]_vars

\* a request failed with a backend message after an earlier upload had
\* stored a locator in the draft
C11_Witness ==
    /\ lastUploadEvent.type = "failure"
    /\ attempts[lastUploadEvent.id].message = "Unsupported media"
    /\ error.msg = "Unsupported media"
    /\ formData.featured_image = Locator(1)
    /\ requests = 2

\* C12: at most one upload request is in flight at any time.
C12_AtMostOneUploadInFlight == Cardinality(Pending) <= 1

\* C13: right after a file was accepted the control is uploading, and right
\* after a request settled, by success or by failure, it is not.
C13_UploadingEntersAndLeaves ==
    /\ (lastUploadEvent.type = "drop" /\ lastUploadEvent.id # 0) => uploading
    /\ lastUploadEvent.type \in {"success", "failure"} => ~uploading

C13_Witness ==
    /\ lastUploadEvent.type = "failure"
    /\ attempts[lastUploadEvent.id].status = "failed"
    /\ ~uploading

\* C14: the removal step empties the preview, clears the error, gives the
\* parent the empty reference, issues no request and changes nothing else.
C14_RemovalEffect ==
    [][lastUploadEvent'.type = "remove" =>
          /\ preview' = Null
          /\ error' = NoError
          /\ formData' = [formData EXCEPT !.featured_image = EmptyStr]
          /\ requests' = requests
          /\ UNCHANGED <<uploading, attempts, revoked, notified, slugTouched,
                         metaTouched, submitVars, dashVars>>]_vars

\* the image of a successful upload was removed
C14_Witness ==
    /\ lastUploadEvent.type = "remove"
    /\ preview = Null
    /\ formData.featured_image = EmptyStr
    /\ \E id \in 1..Len(attempts) : attempts[id].status = "ok"

----------------------------------------------------------------------------
(* Properties of the submission *)

\* C15: the step in which the create request fails leaves every field of the
\* draft, does not navigate, shows one message (the backend's, or the generic
\* one) and enables the submit button again.
C15_CreateFailurePreservesDraft ==
    [][(createRequest.status = "pending" /\ createRequest'.status = "failed") =>
          /\ formData' = formData
          /\ ~navigated'
          /\ alerts' = Append(alerts,
                 IF createRequest'.message # "" THEN createRequest'.message
                 ELSE "Failed to create page")
          /\ ~isLoading']_vars

C15_Witness ==
    /\ createRequest.status = "failed"
    /\ createRequest.message = "Slug already exists"
    /\ alerts = <<"Slug already exists">>
    /\ ~isLoading
    /\ ~navigated
    /\ formData = createRequest.draft

\* C16: a confirm issues one create request that carries the whole current
\* draft, nothing else issues one, and the form has navigated away exactly
\* when the request has succeeded.
C16_OneRequestNavigateOnSuccess ==
    [][/\ (~isLoading /\ isLoading') =>
              /\ createCount' = createCount + 1
              /\ createRequest' = [draft |-> formData, status |-> "pending", message |-> ""]
       /\ createCount' # createCount => (~isLoading /\ isLoading')
       /\ navigated' <=> createRequest'.status = "ok"
       /\ (~navigated /\ navigated') => createRequest.status = "pending"]_vars

C16_Witness ==
    /\ navigated
    /\ createRequest.status = "ok"
    /\ createRequest.draft = formData
    /\ createCount = 2

\* C17: every create request carries a title, a slug and a section.
C17_RequiredFieldsInEveryRequest ==
    createRequest.status # "none" =>
        /\ createRequest.draft.title # <<>>
        /\ createRequest.draft.slug # <<>>
        /\ createRequest.draft.section_id # ""

\* a request is in flight and the user has emptied the slug field since
C17_Witness ==
    /\ createRequest.status = "pending"
    /\ createRequest.draft.section_id = "1"
    /\ formData.slug = <<>>

----------------------------------------------------------------------------
(* Properties of the dashboard *)

Settled == \A r \in StatNames : dashRequests[r].status # "pending"
Rejected == {r \in StatNames : dashRequests[r].status = "rejected"}

\* the count described for a response: the length of the results list when
\* there is one, else the length of the bare list, else zero
DescribedCount(data) ==
    IF data.results # <<>> THEN data.results[1]
    ELSE IF data.length # <<>> THEN data.length[1]
    ELSE 0

\* C18: when the four requests have settled and exactly one has rejected,
\* the statistics of the three others are the counts of their responses and
\* the statistic of the rejected one is zero.
C18_OneRejectionKeepsOtherCounts ==
    (Settled /\ Cardinality(Rejected) = 1) =>
        \A r \in StatNames :
            stats[r] = IF r \in Rejected THEN 0
                       ELSE DescribedCount(dashRequests[r].data)

\* C19: the dashboard is out of its loading state only when the four
\* requests have settled.
C19_LoadingUntilAllSettled == ~dashLoading => Settled

\* C20: the statistics set from four responses are, for each, the length of
\* the results list when there is one (empty or not), else the length of the
\* bare list, else zero.
C20_CountPrefersResults ==
    joined = "fulfilled" =>
        \A r \in StatNames : stats[r] = DescribedCount(dashRequests[r].data)

\* the four shapes at once: a paginated page shorter than its total, an
\* empty results list, a bare list and an object with neither
C20_Witness ==
    /\ joined = "fulfilled"
    /\ dashRequests["pages"].data = [results |-> <<1>>, length |-> <<>>, count |-> MaxItems + 1]
    /\ dashRequests["blogPosts"].data.results = <<0>>
    /\ dashRequests["sections"].data.length = <<MaxItems>>
    /\ dashRequests["contentBlocks"].data = NoData
    /\ stats = [pages |-> 1, blogPosts |-> 0, sections |-> MaxItems, contentBlocks |-> 0]

----------------------------------------------------------------------------
(* Properties of the pages list *)

\* C21: a delete request is sent only by a click the user confirmed, for the
\* page of that click; a declined click sends nothing and leaves the list as
\* it was.
C21_DeleteOnlyAfterConfirm ==
    [][/\ Len(deletes') > Len(deletes) =>
            /\ lastDeleteEvent'.type = "click"
            /\ lastDeleteEvent'.confirmed
            /\ deletes'[Len(deletes')].id = lastDeleteEvent'.id
       /\ (lastDeleteEvent'.type = "click" /\ ~lastDeleteEvent'.confirmed) =>
            /\ deletes' = deletes
            /\ pages' = pages]_vars

\* a declined click on a page of a populated list
C21_Witness ==
    /\ lastDeleteEvent.type = "click"
    /\ ~lastDeleteEvent.confirmed
    /\ \E i \in 1..Len(pages) : pages[i].id = lastDeleteEvent.id

\* C22: neither sending a delete request nor its rejection changes the list:
\* the page is not removed while the request is in flight, nor after it failed.
C22_FailedDeleteKeepsList ==
    [][/\ Len(deletes') > Len(deletes) => pages' = pages
       /\ \A k \in 1..Len(deletes) :
            (deletes[k].status = "pending" /\ deletes'[k].status = "failed") =>
                pages' = pages]_vars

\* a delete request was rejected and its page is still listed
C22_Witness ==
    /\ lastDeleteEvent.type = "failed"
    /\ \E i \in 1..Len(pages) : pages[i].id = lastDeleteEvent.id

\* C23: when a delete request succeeds, the list becomes the list of that
\* moment without the deleted page, the other pages keep their order, and
\* the list is not fetched again.
C23_SuccessRemovesExactlyThatPage ==
    [][\A k \in 1..Len(deletes) :
        (deletes[k].status = "pending" /\ deletes'[k].status = "ok") =>
            /\ pages' = RemovePage(pages, deletes[k].id)
            /\ listRequests' = listRequests]_vars

ShownMatches(page) == ToString(page.section_id) = selectedSection

\* the displayed list is the whole list under "all", and otherwise holds the
\* pages of the selected section, all of them, once each
ShownAsDescribed ==
    IF selectedSection = "all"
    THEN FilteredPages = pages
    ELSE /\ \A i \in 1..Len(FilteredPages) :
                /\ ShownMatches(FilteredPages[i])
                /\ \E j \in 1..Len(pages) : pages[j] = FilteredPages[i]
         /\ \A j \in 1..Len(pages) :
                ShownMatches(pages[j]) =>
                    \E i \in 1..Len(FilteredPages) : FilteredPages[i] = pages[j]
         /\ Len(FilteredPages) = Cardinality({j \in 1..Len(pages) : ShownMatches(pages[j])})

\* C24: changing the section filter sends no request and leaves the fetched
\* lists alone; what is displayed is the whole list under "all" and exactly
\* the pages of the selected section otherwise.
C24_FilterIsPureView ==
    [][/\ selectedSection' # selectedSection =>
            /\ pages' = pages
            /\ sections' = sections
            /\ listRequests' = listRequests
            /\ deletes' = deletes
            /\ requests' = requests
            /\ createCount' = createCount
       /\ ShownAsDescribed']_vars

\* a section is selected that holds some of the fetched pages, not all
C24_Witness ==
    /\ selectedSection # "all"
    /\ Len(FilteredPages) > 0
    /\ Len(FilteredPages) < Len(pages)

NoPageInSelectedSection ==
    /\ selectedSection # "all"
    /\ \A i \in 1..Len(pages) : ToString(pages[i].section_id) # selectedSection

\* C25: selecting a section that none of the fetched pages belongs to shows
\* the empty state with the hint for an empty section, and the fetched pages
\* stay in the component's state.
C25_EmptySectionShowsEmptyState ==
    [][(selectedSection' # selectedSection /\ NoPageInSelectedSection') =>
            /\ View'.screen = "empty"
            /\ View'.message = "No pages found in this section."
            /\ pages' = pages]_vars

\* a populated list filtered by a section without pages
C25_Witness ==
    /\ NoPageInSelectedSection
    /\ Len(pages) > 0
    /\ ~listLoading

\* C26: every failed write shows a message to the user and leaves the draft
\* or the list as it was: a rejected create alerts the backend's message or
\* the generic one, a rejected upload sets the control's error, a rejected
\* delete shows a message too.
C26_FailedWriteShowsMessage ==
    [][/\ (createRequest.status = "pending" /\ createRequest'.status = "failed") =>
            /\ Len(alerts') = Len(alerts) + 1
            /\ alerts'[Len(alerts')] = (IF createRequest'.message = ""
                                        THEN "Failed to create page"
                                        ELSE createRequest'.message)
            /\ formData' = formData
       /\ \A id \in 1..Len(attempts) :
            (attempts[id].status = "pending" /\ attempts'[id].status = "failed") =>
                /\ error'.kind # "none"
                /\ formData' = formData
       /\ \A k \in 1..Len(deletes) :
            (deletes[k].status = "pending" /\ deletes'[k].status = "failed") =>
                /\ Len(alerts') = Len(alerts) + 1
                /\ pages' = pages]_vars

\* C27: the view leaves its loading state once both reads are settled, and a
\* failed read empties its own collection only: the collection of the read
\* that succeeded is populated.
C27_FailedReadIsPerRequest ==
    /\ (\A r \in ListRequestNames : listRequests[r].status # "pending") => ~listLoading
    /\ (/\ listRequests.pages.status = "ok"
        /\ listRequests.sections.status = "failed"
        /\ deletes = <<>>) =>
            /\ pages = Listing(listRequests.pages.data)
            /\ sections = <<>>
    /\ (/\ listRequests.sections.status = "ok"
        /\ listRequests.pages.status = "failed") =>
            /\ sections = Listing(listRequests.sections.data)
            /\ pages = <<>>

\* C29: once every confirmed delete has succeeded, none of the deleted pages
\* is in the list.
C29_DeletedPagesStayGone ==
    (/\ deletes # <<>>
     /\ \A k \in 1..Len(deletes) : deletes[k].status = "ok") =>
        \A k \in 1..Len(deletes) :
            \A i \in 1..Len(pages) : pages[i].id # deletes[k].id

----------------------------------------------------------------------------
(* Properties of the form's field updates *)

Changed == {f \in DOMAIN formData : formData'[f] # formData[f]}

\* C28: an edit of a named field other than the title changes that field and
\* no other, the editor changes content only, the image callback changes
\* featured_image only, and a title edit changes nothing beyond title, slug
\* and meta_title.
C28_EditsTouchOnlyTheirField ==
    [][/\ \A name \in PlainFieldNames : PlainFieldChange(name) => Changed = {name}
       /\ SlugChange => Changed = {"slug"}
       /\ MetaTitleChange => Changed = {"meta_title"}
       /\ SectionChange => Changed = {"section_id"}
       /\ CheckboxChange => Changed = {"requires_auth"}
       /\ ContentChange => Changed = {"content"}
       /\ ImageUploadNotifies => Changed \subseteq {"featured_image"}
       /\ DraftTitleChange =>
            /\ "title" \in Changed
            /\ Changed \subseteq {"title", "slug", "meta_title"}]_vars

\* every kind of field has been edited: title with its derived fields, a
\* plain field, the checkbox, the editor and the image
C28_Witness ==
    /\ formData.title # <<>>
    /\ formData.slug # <<>>
    /\ formData.excerpt # <<>>
    /\ formData.requires_auth
    /\ formData.content # ""
    /\ formData.featured_image # EmptyStr

----------------------------------------------------------------------------
(* Properties of the ImageUpload control: removal during an upload *)

\* C30: when the image is removed while an upload is in flight and that
\* upload then succeeds, the removal stands: the draft's image reference and
\* the control's preview are both empty.
C30_RemovalSurvivesLateSuccess ==
    [][(lastUploadEvent.type = "remove" /\ lastUploadEvent'.type = "success") =>
            /\ formData'.featured_image = EmptyStr
            /\ preview' = Null]_vars

====
